---- MODULE Spec2Model ----
(***************************************************************************)
(* The payroll reporting scripts of salary_system_v3:                      *)
(*   src/frontend/scripts/export_payroll_details.py                        *)
(*   src/export_contribution_base.py                                       *)
(*   src/export_employee_categories.py                                     *)
(*   src/backend/analyze_contribution_bases.py                             *)
(* One behaviour is one run of one script against one database.            *)
(*                                                                         *)
(* Text.  A Python str is modelled as the sequence of its characters; an   *)
(* ASCII character is written as itself ("2", "-", "I") and any other as   *)
(* "u" followed by its code point in hex ("u5de5" is U+5DE5).   The        *)
(* comment above a table gives the literals of the source.                 *)
(***************************************************************************)
EXTENDS Integers, Sequences, FiniteSets, TLC

VARIABLES
    script,       \* which script this process runs
    argv,         \* the parsed command line (argparse's args)
    db,           \* what the database holds and returns: periods, description, rows
    pc,           \* the position of the run in main()
    conn,         \* the psycopg2 connection: "none", "open", "closed"
    cursors,      \* the number of cursors opened and not closed
    period_info,  \* main's period_info: NoPeriod or the record found
    fieldnames,   \* export's fieldnames once computed, Unset before
    buckets,      \* print_field_analysis' four lists, Unset before
    file,         \* the output file on disk
    out,          \* the messages the run has printed
    exit_code,    \* the process exit status, Running until the process ends
    success,      \* main's `success`: "unset", "True" or "False"
    export_stage  \* how far the export function got

vars == << script, argv, db, pc, conn, cursors, period_info, fieldnames,
           buckets, file, out, exit_code, success, export_stage >>

----------------------------------------------------------------------------
(* Python str operations *)

\* s[a:b] for 0 <= a <= b: the characters at 0-based positions a .. b-1 that exist
PySlice(s, a, b) ==
    LET hi == IF b < Len(s) THEN b ELSE Len(s)
    IN  IF a >= hi THEN << >> ELSE SubSeq(s, a + 1, hi)

\* `sub in s` (also what SQL's  LIKE '%sub%'  decides for text without wildcards)
Contains(s, sub) ==
    \E i \in 0..(Len(s) - Len(sub)) : SubSeq(s, i + 1, i + Len(sub)) = sub

\* `x in list`
InList(x, list) == \E i \in 1..Len(list) : list[i] = x

\* any(keyword in field for keyword in keywords)
AnyKeywordIn(field, keywords) ==
    \E i \in 1..Len(keywords) : Contains(field, keywords[i])

----------------------------------------------------------------------------
(* The literals of print_field_analysis and export_payroll_details *)

\* export_payroll_details.py:223-225, the identity-field list
\*   薪资条目ID 员工ID 薪资期间ID 薪资运行ID 员工编号 姓名 身份证号 部门名称 职位名称 人员类别 薪资期间名称 薪资期间开始日期 薪资期间结束日期 薪资发放日期 入职日期 员工状态
BasicFieldList ==
    << <<"u85aa", "u8d44", "u6761", "u76ee", "I", "D">>
    , <<"u5458", "u5de5", "I", "D">>
    , <<"u85aa", "u8d44", "u671f", "u95f4", "I", "D">>
    , <<"u85aa", "u8d44", "u8fd0", "u884c", "I", "D">>
    , <<"u5458", "u5de5", "u7f16", "u53f7">>
    , <<"u59d3", "u540d">>
    , <<"u8eab", "u4efd", "u8bc1", "u53f7">>
    , <<"u90e8", "u95e8", "u540d", "u79f0">>
    , <<"u804c", "u4f4d", "u540d", "u79f0">>
    , <<"u4eba", "u5458", "u7c7b", "u522b">>
    , <<"u85aa", "u8d44", "u671f", "u95f4", "u540d", "u79f0">>
    , <<"u85aa", "u8d44", "u671f", "u95f4", "u5f00", "u59cb", "u65e5", "u671f">>
    , <<"u85aa", "u8d44", "u671f", "u95f4", "u7ed3", "u675f", "u65e5", "u671f">>
    , <<"u85aa", "u8d44", "u53d1", "u653e", "u65e5", "u671f">>
    , <<"u5165", "u804c", "u65e5", "u671f">>
    , <<"u5458", "u5de5", "u72b6", "u6001">> >>

\* export_payroll_details.py:227-228, the earning-field list
\*   应发合计 基本工资 岗位工资 级别工资 薪级工资 绩效工资 奖励性绩效工资 基础性绩效工资 津贴 补助 各种津补贴
EarningFieldList ==
    << <<"u5e94", "u53d1", "u5408", "u8ba1">>
    , <<"u57fa", "u672c", "u5de5", "u8d44">>
    , <<"u5c97", "u4f4d", "u5de5", "u8d44">>
    , <<"u7ea7", "u522b", "u5de5", "u8d44">>
    , <<"u85aa", "u7ea7", "u5de5", "u8d44">>
    , <<"u7ee9", "u6548", "u5de5", "u8d44">>
    , <<"u5956", "u52b1", "u6027", "u7ee9", "u6548", "u5de5", "u8d44">>
    , <<"u57fa", "u7840", "u6027", "u7ee9", "u6548", "u5de5", "u8d44">>
    , <<"u6d25", "u8d34">>
    , <<"u8865", "u52a9">>
    , <<"u5404", "u79cd", "u6d25", "u8865", "u8d34">> >>

\* export_payroll_details.py:230-231, the deduction-field list
\*   扣除合计 个人所得税 养老保险个人应缴金额 医疗保险个人缴纳金额 失业保险个人应缴金额 职业年金个人应缴费额 个人缴住房公积金
DeductionFieldList ==
    << <<"u6263", "u9664", "u5408", "u8ba1">>
    , <<"u4e2a", "u4eba", "u6240", "u5f97", "u7a0e">>
    , <<"u517b", "u8001", "u4fdd", "u9669", "u4e2a", "u4eba", "u5e94", "u7f34", "u91d1", "u989d">>
    , <<"u533b", "u7597", "u4fdd", "u9669", "u4e2a", "u4eba", "u7f34", "u7eb3", "u91d1", "u989d">>
    , <<"u5931", "u4e1a", "u4fdd", "u9669", "u4e2a", "u4eba", "u5e94", "u7f34", "u91d1", "u989d">>
    , <<"u804c", "u4e1a", "u5e74", "u91d1", "u4e2a", "u4eba", "u5e94", "u7f34", "u8d39", "u989d">>
    , <<"u4e2a", "u4eba", "u7f34", "u4f4f", "u623f", "u516c", "u79ef", "u91d1">> >>

\* export_payroll_details.py:235, the earning keywords
\*   工资 津贴 补贴 奖 补发 绩效
EarningKeywords ==
    << <<"u5de5", "u8d44">>
    , <<"u6d25", "u8d34">>
    , <<"u8865", "u8d34">>
    , <<"u5956">>
    , <<"u8865", "u53d1">>
    , <<"u7ee9", "u6548">> >>

\* export_payroll_details.py:236, the keywords that bar the earning bucket
\*   扣 个人 单位
ExclusionKeywords ==
    << <<"u6263">>
    , <<"u4e2a", "u4eba">>
    , <<"u5355", "u4f4d">> >>

\* export_payroll_details.py:238, the deduction/tax keywords
\*   个人 扣 税
DeductionKeywords ==
    << <<"u4e2a", "u4eba">>
    , <<"u6263">>
    , <<"u7a0e">> >>

\* export_payroll_details.py:131, the fields written with their time of day
\*   计算时间 更新时间 薪资运行日期 审计时间
TimestampFields ==
    << <<"u8ba1", "u7b97", "u65f6", "u95f4">>
    , <<"u66f4", "u65b0", "u65f6", "u95f4">>
    , <<"u85aa", "u8d44", "u8fd0", "u884c", "u65e5", "u671f">>
    , <<"u5ba1", "u8ba1", "u65f6", "u95f4">> >>

\* the characters of get_payroll_period_info's f-string: U+5E74 (year), U+6708 (month)
YearChar == "u5e74"
MonthChar == "u6708"

\* cursor.description type code of a PostgreSQL numeric column
NUMERIC_OID == 1700

----------------------------------------------------------------------------
(* print_field_analysis: the classification pass, lines 217-241 *)

EmptyBuckets ==
    [ basic_fields |-> << >>, earning_fields |-> << >>,
      deduction_fields |-> << >>, other_fields |-> << >> ]

\* line 236: '扣' not in field and '个人' not in field and '单位' not in field
NoExclusionKeyword(field) == ~AnyKeywordIn(field, ExclusionKeywords)

\* a variant that consults the keyword rules only (the three exact-match
\* tests of lines 223-232 lost)
ClassifyFieldKeywordsOnly(b, field) ==
    IF AnyKeywordIn(field, EarningKeywords) THEN
        IF NoExclusionKeyword(field) THEN
            [b EXCEPT !.earning_fields = Append(@, field)]
        ELSE b
    ELSE IF AnyKeywordIn(field, DeductionKeywords) THEN
        [b EXCEPT !.deduction_fields = Append(@, field)]
    ELSE
        [b EXCEPT !.other_fields = Append(@, field)]

\* a variant whose result depends on what was classified before: the exact
\* lists are consulted for the first field only
ClassifyFieldByPosition(b, field) ==
    IF b = EmptyBuckets /\ InList(field, BasicFieldList) THEN
        [b EXCEPT !.basic_fields = Append(@, field)]
    ELSE IF b = EmptyBuckets /\ InList(field, EarningFieldList) THEN
        [b EXCEPT !.earning_fields = Append(@, field)]
    ELSE IF b = EmptyBuckets /\ InList(field, DeductionFieldList) THEN
        [b EXCEPT !.deduction_fields = Append(@, field)]
    ELSE
        [b EXCEPT !.other_fields = Append(@, field)]

\* One iteration of `for field in fieldnames` (lines 222-241): the lists after
\* the iteration.  The `elif` of line 238 belongs to the `if` of line 235, and
\* the inner `if` of line 236 has no else: a field with an earning keyword and
\* an exclusion keyword is appended to no list.
ClassifyField(b, field) ==
    IF InList(field, BasicFieldList) THEN
        [b EXCEPT !.basic_fields = Append(@, field)]
    ELSE IF InList(field, EarningFieldList) THEN
        [b EXCEPT !.earning_fields = Append(@, field)]
    ELSE IF InList(field, DeductionFieldList) THEN
        [b EXCEPT !.deduction_fields = Append(@, field)]
    ELSE IF AnyKeywordIn(field, EarningKeywords) THEN
        IF NoExclusionKeyword(field) THEN
            [b EXCEPT !.earning_fields = Append(@, field)]
        ELSE b
    ELSE IF AnyKeywordIn(field, DeductionKeywords) THEN
        [b EXCEPT !.deduction_fields = Append(@, field)]
    ELSE
        [b EXCEPT !.other_fields = Append(@, field)]

\* the whole loop over the first n field names
RECURSIVE ClassifyFields(_, _)
ClassifyFields(names, n) ==
    IF n = 0 THEN EmptyBuckets
    ELSE ClassifyField(ClassifyFields(names, n - 1), names[n])

\* line 214: fieldnames = [desc[0] for desc in cursor.description]
DescriptionNames(description) ==
    [i \in 1..Len(description) |-> description[i].name]

----------------------------------------------------------------------------
(* Cell values.  A value a cursor returns is a record [k, a, b]:           *)
(*   k = "null"      Python None                                           *)
(*   k = "decimal"   a Decimal, a * 10^b   (numeric columns)               *)
(*   k = "int"       an int, a                                             *)
(*   k = "str"       a str; a = 0 is the empty string ''                   *)
(*   k = "date"      a datetime.date, day number a                         *)
(*   k = "datetime"  a datetime.datetime, day number a, second of day b    *)

NullValue == [k |-> "null", a |-> 0, b |-> 0]
DecimalValue(coef, exp) == [k |-> "decimal", a |-> coef, b |-> exp]
IntValue(n) == [k |-> "int", a |-> n, b |-> 0]
StrValue(id) == [k |-> "str", a |-> id, b |-> 0]
DateValue(day) == [k |-> "date", a |-> day, b |-> 0]
DateTimeValue(day, sec) == [k |-> "datetime", a |-> day, b |-> sec]

Abs(n) == IF n < 0 THEN -n ELSE n

\* The leading decimal digits of 2^-1075 = 2.470328229...e-324, half the
\* smallest positive double: float() rounds to nearest, ties to even, so a
\* magnitude of at most 2^-1075 becomes 0.0 and a larger one does not.
HalfMinDoubleDigits == << 2, 4, 7, 0, 3, 2, 8, 2, 2 >>

RECURSIVE LeadingDigits(_)
LeadingDigits(n) ==
    IF n = 0 THEN 0 ELSE 10 * LeadingDigits(n - 1) + HalfMinDoubleDigits[n]

\* float(v) == 0 for v = coef * 10^exp (line 108 tests float(row[field]) != 0).
\* For exp >= -323 any non-zero coefficient is above 2^-1075.  For
\* exp = -324 - j the value is at most 2^-1075 iff |coef| is at most the
\* first j + 1 digits of 2^-1075; past the table every coefficient below
\* 2^31 is.
FloatIsZero(coef, exp) ==
    \/ coef = 0
    \/ /\ exp <= -324
       /\ LET j == -324 - exp
          IN  \/ j + 1 > Len(HalfMinDoubleDigits)
              \/ Abs(coef) <= LeadingDigits(j + 1)

\* line 108: row[field] is not None and float(row[field]) != 0
IsNonZero(v) == v.k # "null" /\ ~FloatIsZero(v.a, v.b)

\* whether the Decimal itself is zero (what the column holds, before float())
IsExactZero(v) == v.k = "decimal" /\ v.a = 0

----------------------------------------------------------------------------
(* export_payroll_details: zero-column pruning, lines 90-115 *)

\* DictRow's row[field]: the cursor maps a column name to its index, a later
\* column of the same name replacing an earlier one
ColumnIndex(description, field) ==
    CHOOSE i \in 1..Len(description) :
        /\ description[i].name = field
        /\ \A j \in (i + 1)..Len(description) : description[j].name # field

RowValue(description, row, field) == row[ColumnIndex(description, field)]

\* a variant that takes every column for numeric (line 101's test lost)
NumericFieldsAnyType(description) ==
    { description[i].name : i \in 1..Len(description) }

\* lines 97-102: the names of the columns whose type code is 1700
NumericFields(description) ==
    { description[i].name : i \in { j \in 1..Len(description) :
                                      description[j].type_code = NUMERIC_OID } }

\* lines 106-110: some row holds a value that is not None and not float-zero
HasNonZero(description, rows, field) ==
    \E r \in 1..Len(rows) : IsNonZero(RowValue(description, rows[r], field))

\* lines 96-112: set(fieldnames) less every numeric field without such a row
NonZeroFields(description, rows) ==
    { description[i].name : i \in 1..Len(description) }
        \ { f \in NumericFields(description) : ~HasNonZero(description, rows, f) }

\* a variant that prunes whatever the flag says (line 94's test lost)
PrunedFieldnamesIgnoringFlag(description, rows, include_zero_fields) ==
    SelectSeq(DescriptionNames(description),
              LAMBDA f : f \in NonZeroFields(description, rows))

\* a variant that lists the kept names in another order, as iterating the
\* set non_zero_fields instead of the list fieldnames (line 114) could
PrunedFieldnamesReversed(description, rows, include_zero_fields) ==
    LET kept == IF include_zero_fields
                THEN DescriptionNames(description)
                ELSE SelectSeq(DescriptionNames(description),
                               LAMBDA f : f \in NonZeroFields(description, rows))
    IN  [i \in 1..Len(kept) |-> kept[Len(kept) + 1 - i]]

\* lines 91-114: the column list the export writes
PrunedFieldnames(description, rows, include_zero_fields) ==
    IF include_zero_fields
    THEN DescriptionNames(description)
    ELSE SelectSeq(DescriptionNames(description),
                   LAMBDA f : f \in NonZeroFields(description, rows))

----------------------------------------------------------------------------
(* CSV cells.  A field of the written file is a record [t, a, b]:          *)
(*   t = ""                    the empty field                             *)
(*   t = "%Y-%m-%d"            the date of day number a, the year written  *)
(*                             with four digits                            *)
(*   t = "%Y-%m-%d %H:%M:%S"   the same, then the second of day b          *)
(*   t = "%-Y-%m-%d", "%-Y-%m-%d %H:%M:%S"                                 *)
(*                             the same with the year's leading zeros left *)
(*                             out (a year below 1000)                     *)
(*   t = "decimal", "int"      str() of the number                         *)
(*   t = "str"                 the non-empty string a                      *)

EmptyField == [t |-> "", a |-> 0, b |-> 0]

\* the year of a day number yyyymmdd
YearOf(day) == day \div 10000

\* value.strftime(fmt) of a datetime: the date-only format drops the time.
\* The C library's %Y does not pad the year (glibc): a year below 1000 is
\* written with fewer than four digits, 999-01-02 where str(date) gives
\* 0999-01-02.
Strftime(value, fmt) ==
    IF fmt = "%Y-%m-%d" THEN
        [ t |-> IF YearOf(value.a) < 1000 THEN "%-Y-%m-%d" ELSE fmt,
          a |-> value.a, b |-> 0 ]
    ELSE
        [ t |-> IF YearOf(value.a) < 1000 THEN "%-Y-%m-%d %H:%M:%S" ELSE fmt,
          a |-> value.a, b |-> value.b ]

\* a variant of csv.writer that writes None as the text of str(None)
CsvFieldNoneAsText(value) ==
    IF value.k = "str" THEN
        IF value.a = 0 THEN EmptyField ELSE [t |-> "str", a |-> value.a, b |-> 0]
    ELSE IF value.k = "date" THEN [t |-> "%Y-%m-%d", a |-> value.a, b |-> 0]
    ELSE IF value.k = "datetime" THEN
        [t |-> "str(datetime)", a |-> value.a, b |-> value.b]
    ELSE [t |-> value.k, a |-> value.a, b |-> value.b]

\* what csv.writer writes for a Python value: '' for None, a str as it is,
\* str(value) otherwise (str of a date is its ISO form, YYYY-MM-DD, the year
\* always with four digits)
CsvField(value) ==
    IF value.k = "null" THEN EmptyField
    ELSE IF value.k = "str" THEN
        IF value.a = 0 THEN EmptyField ELSE [t |-> "str", a |-> value.a, b |-> 0]
    ELSE IF value.k = "date" THEN [t |-> "%Y-%m-%d", a |-> value.a, b |-> 0]
    ELSE IF value.k = "datetime" THEN
        [t |-> "str(datetime)", a |-> value.a, b |-> value.b]
    ELSE [t |-> value.k, a |-> value.a, b |-> value.b]

\* export_payroll_details lines 129-135, then csv's writing of the entry
PayrollCell(field, value) ==
    IF value.k = "datetime" THEN
        IF InList(field, TimestampFields)
        THEN Strftime(value, "%Y-%m-%d %H:%M:%S")
        ELSE Strftime(value, "%Y-%m-%d")
    ELSE IF value.k = "null" THEN EmptyField
    ELSE CsvField(value)

\* export_contribution_base lines 148-151 (export_employee_categories
\* 122-125), then csv's writing of the entry
PlainCell(field, value) ==
    IF value.k = "datetime" THEN Strftime(value, "%Y-%m-%d")
    ELSE CsvField(value)

\* a variant that writes a cell for every column of the result set, the
\* dropped ones included
PayrollRowUnpruned(description, row, names) ==
    [i \in 1..Len(description) |-> PayrollCell(description[i].name, row[i])]

\* the row DictWriter writes: one field per name of fieldnames, in that order
PayrollRow(description, row, names) ==
    [i \in 1..Len(names) |-> PayrollCell(names[i], RowValue(description, row, names[i]))]

PlainRow(description, row, names) ==
    [i \in 1..Len(names) |-> PlainCell(names[i], RowValue(description, row, names[i]))]

----------------------------------------------------------------------------
(* validate_period_format and the period name, lines 36-54 *)

Digits == { "0", "1", "2", "3", "4", "5", "6", "7", "8", "9" }

\* The characters strptime's \d (the regular expression of %Y, on a str)
\* matches and int() converts: the decimal digits of every script (Unicode
\* category Nd), each run listing the digits 0..9 of one script.
DecimalDigitRuns ==
    << <<"0", "1", "2", "3", "4", "5", "6", "7", "8", "9">>,
       <<"u0660", "u0661", "u0662", "u0663", "u0664", "u0665", "u0666", "u0667", "u0668", "u0669">>,
       <<"u06f0", "u06f1", "u06f2", "u06f3", "u06f4", "u06f5", "u06f6", "u06f7", "u06f8", "u06f9">>,
       <<"u07c0", "u07c1", "u07c2", "u07c3", "u07c4", "u07c5", "u07c6", "u07c7", "u07c8", "u07c9">>,
       <<"u0966", "u0967", "u0968", "u0969", "u096a", "u096b", "u096c", "u096d", "u096e", "u096f">>,
       <<"u09e6", "u09e7", "u09e8", "u09e9", "u09ea", "u09eb", "u09ec", "u09ed", "u09ee", "u09ef">>,
       <<"u0a66", "u0a67", "u0a68", "u0a69", "u0a6a", "u0a6b", "u0a6c", "u0a6d", "u0a6e", "u0a6f">>,
       <<"u0ae6", "u0ae7", "u0ae8", "u0ae9", "u0aea", "u0aeb", "u0aec", "u0aed", "u0aee", "u0aef">>,
       <<"u0b66", "u0b67", "u0b68", "u0b69", "u0b6a", "u0b6b", "u0b6c", "u0b6d", "u0b6e", "u0b6f">>,
       <<"u0be6", "u0be7", "u0be8", "u0be9", "u0bea", "u0beb", "u0bec", "u0bed", "u0bee", "u0bef">>,
       <<"u0c66", "u0c67", "u0c68", "u0c69", "u0c6a", "u0c6b", "u0c6c", "u0c6d", "u0c6e", "u0c6f">>,
       <<"u0ce6", "u0ce7", "u0ce8", "u0ce9", "u0cea", "u0ceb", "u0cec", "u0ced", "u0cee", "u0cef">>,
       <<"u0d66", "u0d67", "u0d68", "u0d69", "u0d6a", "u0d6b", "u0d6c", "u0d6d", "u0d6e", "u0d6f">>,
       <<"u0de6", "u0de7", "u0de8", "u0de9", "u0dea", "u0deb", "u0dec", "u0ded", "u0dee", "u0def">>,
       <<"u0e50", "u0e51", "u0e52", "u0e53", "u0e54", "u0e55", "u0e56", "u0e57", "u0e58", "u0e59">>,
       <<"u0ed0", "u0ed1", "u0ed2", "u0ed3", "u0ed4", "u0ed5", "u0ed6", "u0ed7", "u0ed8", "u0ed9">>,
       <<"u0f20", "u0f21", "u0f22", "u0f23", "u0f24", "u0f25", "u0f26", "u0f27", "u0f28", "u0f29">>,
       <<"u1040", "u1041", "u1042", "u1043", "u1044", "u1045", "u1046", "u1047", "u1048", "u1049">>,
       <<"u1090", "u1091", "u1092", "u1093", "u1094", "u1095", "u1096", "u1097", "u1098", "u1099">>,
       <<"u17e0", "u17e1", "u17e2", "u17e3", "u17e4", "u17e5", "u17e6", "u17e7", "u17e8", "u17e9">>,
       <<"u1810", "u1811", "u1812", "u1813", "u1814", "u1815", "u1816", "u1817", "u1818", "u1819">>,
       <<"u1946", "u1947", "u1948", "u1949", "u194a", "u194b", "u194c", "u194d", "u194e", "u194f">>,
       <<"u19d0", "u19d1", "u19d2", "u19d3", "u19d4", "u19d5", "u19d6", "u19d7", "u19d8", "u19d9">>,
       <<"u1a80", "u1a81", "u1a82", "u1a83", "u1a84", "u1a85", "u1a86", "u1a87", "u1a88", "u1a89">>,
       <<"u1a90", "u1a91", "u1a92", "u1a93", "u1a94", "u1a95", "u1a96", "u1a97", "u1a98", "u1a99">>,
       <<"u1b50", "u1b51", "u1b52", "u1b53", "u1b54", "u1b55", "u1b56", "u1b57", "u1b58", "u1b59">>,
       <<"u1bb0", "u1bb1", "u1bb2", "u1bb3", "u1bb4", "u1bb5", "u1bb6", "u1bb7", "u1bb8", "u1bb9">>,
       <<"u1c40", "u1c41", "u1c42", "u1c43", "u1c44", "u1c45", "u1c46", "u1c47", "u1c48", "u1c49">>,
       <<"u1c50", "u1c51", "u1c52", "u1c53", "u1c54", "u1c55", "u1c56", "u1c57", "u1c58", "u1c59">>,
       <<"ua620", "ua621", "ua622", "ua623", "ua624", "ua625", "ua626", "ua627", "ua628", "ua629">>,
       <<"ua8d0", "ua8d1", "ua8d2", "ua8d3", "ua8d4", "ua8d5", "ua8d6", "ua8d7", "ua8d8", "ua8d9">>,
       <<"ua900", "ua901", "ua902", "ua903", "ua904", "ua905", "ua906", "ua907", "ua908", "ua909">>,
       <<"ua9d0", "ua9d1", "ua9d2", "ua9d3", "ua9d4", "ua9d5", "ua9d6", "ua9d7", "ua9d8", "ua9d9">>,
       <<"ua9f0", "ua9f1", "ua9f2", "ua9f3", "ua9f4", "ua9f5", "ua9f6", "ua9f7", "ua9f8", "ua9f9">>,
       <<"uaa50", "uaa51", "uaa52", "uaa53", "uaa54", "uaa55", "uaa56", "uaa57", "uaa58", "uaa59">>,
       <<"uabf0", "uabf1", "uabf2", "uabf3", "uabf4", "uabf5", "uabf6", "uabf7", "uabf8", "uabf9">>,
       <<"uff10", "uff11", "uff12", "uff13", "uff14", "uff15", "uff16", "uff17", "uff18", "uff19">>,
       <<"u104a0", "u104a1", "u104a2", "u104a3", "u104a4", "u104a5", "u104a6", "u104a7", "u104a8", "u104a9">>,
       <<"u10d30", "u10d31", "u10d32", "u10d33", "u10d34", "u10d35", "u10d36", "u10d37", "u10d38", "u10d39">>,
       <<"u11066", "u11067", "u11068", "u11069", "u1106a", "u1106b", "u1106c", "u1106d", "u1106e", "u1106f">>,
       <<"u110f0", "u110f1", "u110f2", "u110f3", "u110f4", "u110f5", "u110f6", "u110f7", "u110f8", "u110f9">>,
       <<"u11136", "u11137", "u11138", "u11139", "u1113a", "u1113b", "u1113c", "u1113d", "u1113e", "u1113f">>,
       <<"u111d0", "u111d1", "u111d2", "u111d3", "u111d4", "u111d5", "u111d6", "u111d7", "u111d8", "u111d9">>,
       <<"u112f0", "u112f1", "u112f2", "u112f3", "u112f4", "u112f5", "u112f6", "u112f7", "u112f8", "u112f9">>,
       <<"u11450", "u11451", "u11452", "u11453", "u11454", "u11455", "u11456", "u11457", "u11458", "u11459">>,
       <<"u114d0", "u114d1", "u114d2", "u114d3", "u114d4", "u114d5", "u114d6", "u114d7", "u114d8", "u114d9">>,
       <<"u11650", "u11651", "u11652", "u11653", "u11654", "u11655", "u11656", "u11657", "u11658", "u11659">>,
       <<"u116c0", "u116c1", "u116c2", "u116c3", "u116c4", "u116c5", "u116c6", "u116c7", "u116c8", "u116c9">>,
       <<"u11730", "u11731", "u11732", "u11733", "u11734", "u11735", "u11736", "u11737", "u11738", "u11739">>,
       <<"u118e0", "u118e1", "u118e2", "u118e3", "u118e4", "u118e5", "u118e6", "u118e7", "u118e8", "u118e9">>,
       <<"u11950", "u11951", "u11952", "u11953", "u11954", "u11955", "u11956", "u11957", "u11958", "u11959">>,
       <<"u11c50", "u11c51", "u11c52", "u11c53", "u11c54", "u11c55", "u11c56", "u11c57", "u11c58", "u11c59">>,
       <<"u11d50", "u11d51", "u11d52", "u11d53", "u11d54", "u11d55", "u11d56", "u11d57", "u11d58", "u11d59">>,
       <<"u11da0", "u11da1", "u11da2", "u11da3", "u11da4", "u11da5", "u11da6", "u11da7", "u11da8", "u11da9">>,
       <<"u16a60", "u16a61", "u16a62", "u16a63", "u16a64", "u16a65", "u16a66", "u16a67", "u16a68", "u16a69">>,
       <<"u16ac0", "u16ac1", "u16ac2", "u16ac3", "u16ac4", "u16ac5", "u16ac6", "u16ac7", "u16ac8", "u16ac9">>,
       <<"u16b50", "u16b51", "u16b52", "u16b53", "u16b54", "u16b55", "u16b56", "u16b57", "u16b58", "u16b59">>,
       <<"u1d7ce", "u1d7cf", "u1d7d0", "u1d7d1", "u1d7d2", "u1d7d3", "u1d7d4", "u1d7d5", "u1d7d6", "u1d7d7">>,
       <<"u1d7d8", "u1d7d9", "u1d7da", "u1d7db", "u1d7dc", "u1d7dd", "u1d7de", "u1d7df", "u1d7e0", "u1d7e1">>,
       <<"u1d7e2", "u1d7e3", "u1d7e4", "u1d7e5", "u1d7e6", "u1d7e7", "u1d7e8", "u1d7e9", "u1d7ea", "u1d7eb">>,
       <<"u1d7ec", "u1d7ed", "u1d7ee", "u1d7ef", "u1d7f0", "u1d7f1", "u1d7f2", "u1d7f3", "u1d7f4", "u1d7f5">>,
       <<"u1d7f6", "u1d7f7", "u1d7f8", "u1d7f9", "u1d7fa", "u1d7fb", "u1d7fc", "u1d7fd", "u1d7fe", "u1d7ff">>,
       <<"u1e140", "u1e141", "u1e142", "u1e143", "u1e144", "u1e145", "u1e146", "u1e147", "u1e148", "u1e149">>,
       <<"u1e2f0", "u1e2f1", "u1e2f2", "u1e2f3", "u1e2f4", "u1e2f5", "u1e2f6", "u1e2f7", "u1e2f8", "u1e2f9">>,
       <<"u1e950", "u1e951", "u1e952", "u1e953", "u1e954", "u1e955", "u1e956", "u1e957", "u1e958", "u1e959">>,
       <<"u1fbf0", "u1fbf1", "u1fbf2", "u1fbf3", "u1fbf4", "u1fbf5", "u1fbf6", "u1fbf7", "u1fbf8", "u1fbf9">> >>

IsDecimalDigit(c) ==
    \E r \in 1..Len(DecimalDigitRuns), d \in 1..10 : DecimalDigitRuns[r][d] = c

\* int() of the one digit
DigitValue(c) ==
    CHOOSE v \in 0..9 :
        \E r \in 1..Len(DecimalDigitRuns) : DecimalDigitRuns[r][v + 1] = c

\* strptime's pattern for %m:  1[0-2] | 0[1-9] | [1-9]
MatchesMonth(m) ==
    \/ Len(m) = 2 /\ m[1] = "1" /\ m[2] \in { "0", "1", "2" }
    \/ Len(m) = 2 /\ m[1] = "0" /\ m[2] \in Digits \ { "0" }
    \/ Len(m) = 1 /\ m[1] \in Digits \ { "0" }

\* datetime.strptime(period_str, '%Y-%m') does not raise: four decimal
\* digits of any script (%Y) naming a year datetime accepts (not 0), '-', a
\* month in ASCII digits, and nothing more
validate_period_format(period_str) ==
    /\ Len(period_str) \in { 6, 7 }
    /\ \A i \in 1..4 : IsDecimalDigit(period_str[i])
    /\ \E i \in 1..4 : DigitValue(period_str[i]) # 0
    /\ period_str[5] = "-"
    /\ MatchesMonth(SubSeq(period_str, 6, Len(period_str)))

\* line 54: f"{period_str[:4]}年{period_str[5:7]}月"
PeriodName(period_str) ==
    PySlice(period_str, 0, 4) \o << YearChar >>
        \o PySlice(period_str, 5, 7) \o << MonthChar >>

\* the rows of payroll.payroll_periods that  name LIKE '%period_name%'  selects
MatchingPeriods(periods, period_name) ==
    { p \in periods : Contains(p, period_name) }

----------------------------------------------------------------------------
(* The run *)

Running == -1
NoPeriod == [found |-> FALSE, name |-> << >>]
\* The output file: whether it exists, its complete lines (the header line,
\* the data lines), and its last, incomplete line if it ends in one: the
\* cells written whole, and whether part of a further cell follows them.
NoTail == [cells |-> << >>, cut_cell |-> FALSE]
NoFile ==
    [ created |-> FALSE, header_written |-> FALSE, header |-> << >>,
      rows |-> << >>, tail |-> NoTail ]

PayrollDetails == "export_payroll_details.py"
ContributionBase == "export_contribution_base.py"
EmployeeCategories == "export_employee_categories.py"
AnalyzeBases == "analyze_contribution_bases.py"
Exporters == { PayrollDetails, ContributionBase, EmployeeCategories }
Scripts == Exporters \cup { AnalyzeBases }

\* the process ends inside main's try block: `finally: conn.close()` runs
LeaveTry(code, msgs) ==
    /\ pc' = "done"
    /\ exit_code' = code
    /\ conn' = "closed"
    /\ out' = out \cup msgs

\* main, lines 272-289: parse the command line and check the period
main_parse_args ==
    /\ pc = "start"
    /\ script \in Exporters
    /\ IF argv.period = << >> THEN
            \* parser.error prints the usage and exits with status 2
            /\ pc' = "done"
            /\ exit_code' = 2
            /\ out' = out \cup { "usage_error" }
       ELSE IF ~validate_period_format(argv.period) THEN
            /\ pc' = "done"
            /\ exit_code' = 1
            /\ out' = out \cup { "format_error" }
       ELSE
            /\ pc' = "connect"
            /\ out' = out \cup { "connecting" }
            /\ UNCHANGED exit_code
    /\ UNCHANGED << script, argv, db, conn, cursors, period_info, fieldnames,
                    buckets, file, success, export_stage >>

\* get_db_connection, lines 27-34
get_db_connection ==
    /\ pc = "connect"
    /\ \E connected \in BOOLEAN :
        IF connected THEN
            /\ conn' = "open"
            /\ pc' = "period"
            /\ UNCHANGED << out, exit_code >>
        ELSE
            \* psycopg2.Error: message, sys.exit(1)
            /\ pc' = "done"
            /\ exit_code' = 1
            /\ out' = out \cup { "db_connect_error" }
            /\ UNCHANGED conn
    /\ UNCHANGED << script, argv, db, cursors, period_info, fieldnames,
                    buckets, file, success, export_stage >>

\* get_payroll_period_info, lines 44-64, and main's lines 297-299
get_payroll_period_info ==
    /\ pc = "period"
    /\ \E raises \in BOOLEAN :
        IF raises THEN
            \* the query raises: nothing catches it, the interpreter prints
            \* the traceback and the status is 1
            /\ LeaveTry(1, { "traceback" })
            /\ UNCHANGED period_info
        ELSE IF MatchingPeriods(db.periods, PeriodName(argv.period)) = { } THEN
            /\ LeaveTry(1, { "period_not_found" })
            /\ UNCHANGED period_info
        ELSE
            \* ORDER BY start_date DESC LIMIT 1: one of the matching rows
            /\ \E p \in MatchingPeriods(db.periods, PeriodName(argv.period)) :
                    period_info' = [found |-> TRUE, name |-> p]
            /\ pc' = "stats"
            /\ UNCHANGED << conn, out, exit_code >>
    /\ UNCHANGED << script, argv, db, cursors, fieldnames, buckets, file,
                    success, export_stage >>

\* print_summary_stats, lines 152-198, and main's choice of the next step
print_summary_stats ==
    /\ pc = "stats"
    /\ \E raises \in BOOLEAN :
        IF raises THEN
            LeaveTry(1, { "traceback" })
        ELSE
            /\ out' = out \cup { "summary_stats" }
            /\ pc' = IF script = PayrollDetails /\ argv.analyze_fields THEN "analyze"
                     ELSE IF argv.stats_only THEN "stats_only"
                     ELSE "export"
            /\ UNCHANGED << conn, exit_code >>
    /\ UNCHANGED << script, argv, db, cursors, period_info, fieldnames, buckets,
                    file, success, export_stage >>

\* print_field_analysis, lines 200-249
print_field_analysis ==
    /\ pc = "analyze"
    /\ \E raises \in BOOLEAN :
        IF raises THEN
            /\ LeaveTry(1, { "traceback" })
            /\ UNCHANGED buckets
        ELSE
            /\ buckets' = ClassifyFields(DescriptionNames(db.description),
                                         Len(db.description))
            /\ out' = out \cup { "field_analysis" }
            /\ pc' = IF argv.stats_only THEN "stats_only" ELSE "export"
            /\ UNCHANGED << conn, exit_code >>
    /\ UNCHANGED << script, argv, db, cursors, period_info, fieldnames, file,
                    success, export_stage >>

\* main, lines 309-311: --stats-only returns before the export
main_stats_only ==
    /\ pc = "stats_only"
    /\ LeaveTry(0, { "stats_only" })
    /\ UNCHANGED << script, argv, db, cursors, period_info, fieldnames, buckets,
                    file, success, export_stage >>

----------------------------------------------------------------------------
(* The export functions *)

\* where an export can raise: nowhere, in cursor.execute, in open(), or in
\* a write.  The file object is buffered: an I/O error (disk full, quota,
\* file-size limit) is raised by a flush, during a writerow() or only by the
\* close() that ends the `with` block, and the file keeps the bytes written
\* before it, a prefix of the text that may end inside a line or a cell.
\*   "header"  the prefix ends in the header line
\*   "row"     the header line is whole and the prefix ends in data line
\*             at.row, or, for at.row past the last row, holds every line
\*             (close() raised after the last flush)
ExportFaults == { "none", "execute", "open", "header", "row" }

\* where the prefix ends: the data line, the number of its cells written
\* whole, and whether part of the next cell follows (nowhere, when no write
\* fails)
FaultPoints(fault, description, rows) ==
    IF fault = "row" THEN
        [ row : 1..(Len(rows) + 1), cells : 0..Len(description), cut_cell : BOOLEAN ]
    ELSE IF fault = "header" THEN
        [ row : { 1 }, cells : 0..Len(description), cut_cell : BOOLEAN ]
    ELSE
        { [ row |-> 1, cells |-> 0, cut_cell |-> FALSE ] }

\* the incomplete last line left of the line `cells`
TailOf(cells, at) ==
    LET c == IF at.cells < Len(cells) THEN at.cells ELSE Len(cells)
    IN  [ cells |-> SubSeq(cells, 1, c),
          cut_cell |-> at.cut_cell /\ c < Len(cells) ]

FailedExport(stage, msg) ==
    [ stage |-> stage, success |-> "False", fieldnames |-> << >>,
      file |-> NoFile, msgs |-> { msg } ]

\* `with open(output_file, 'w', ...)` and the writes inside it: the file is
\* created (or truncated) by open() and keeps whatever was written before an
\* exception; nothing removes it.  `lines` are the rows as they would be written.
WriteCsv(names, lines, fault, at) ==
    IF fault = "open" THEN
        [ stage |-> "open_failed", success |-> "False", file |-> NoFile,
          msgs |-> { "export_error" } ]
    ELSE IF fault = "header" THEN
        [ stage |-> "write_failed", success |-> "False",
          file |-> [NoFile EXCEPT !.created = TRUE, !.tail = TailOf(names, at)],
          msgs |-> { "export_error" } ]
    ELSE IF fault = "row" THEN
        [ stage |-> "write_failed", success |-> "False",
          file |-> [ created |-> TRUE, header_written |-> TRUE,
                     header |-> names, rows |-> SubSeq(lines, 1, at.row - 1),
                     tail |-> IF at.row <= Len(lines)
                              THEN TailOf(lines[at.row], at) ELSE NoTail ],
          msgs |-> { "export_error" } ]
    ELSE
        [ stage |-> "written", success |-> "True",
          file |-> [ created |-> TRUE, header_written |-> TRUE,
                     header |-> names, rows |-> lines, tail |-> NoTail ],
          msgs |-> { "export_rows_done" } ]

\* a variant without the empty-result check of lines 86-88
ExportPayrollDetailsNoEmptyCheck(description, rows, include_zero_fields, fault, at) ==
    IF fault = "execute" THEN FailedExport("query_raised", "export_error")
    ELSE
        LET names == PrunedFieldnames(description, rows, include_zero_fields)
            lines == [i \in 1..Len(rows) |-> PayrollRow(description, rows[i], names)]
            w == WriteCsv(names, lines, fault, at)
        IN  [ stage |-> w.stage, success |-> w.success, fieldnames |-> names,
              file |-> w.file,
              msgs |-> w.msgs \cup
                       (IF include_zero_fields THEN { } ELSE { "filter_count" }) ]

\* export_payroll_details, lines 66-144
ExportPayrollDetailsResult(description, rows, include_zero_fields, fault, at) ==
    IF fault = "execute" THEN FailedExport("query_raised", "export_error")
    ELSE IF rows = << >> THEN FailedExport("no_rows", "no_data")
    ELSE
        LET names == PrunedFieldnames(description, rows, include_zero_fields)
            lines == [i \in 1..Len(rows) |-> PayrollRow(description, rows[i], names)]
            w == WriteCsv(names, lines, fault, at)
        IN  [ stage |-> w.stage, success |-> w.success, fieldnames |-> names,
              file |-> w.file,
              msgs |-> w.msgs \cup
                       (IF include_zero_fields THEN { } ELSE { "filter_count" }) ]

\* export_contribution_base, lines 66-160, and export_employee_categories,
\* lines 66-134: no pruning; fieldnames is read after open() succeeded
ExportPlainResult(description, rows, fault, at) ==
    IF fault = "execute" THEN FailedExport("query_raised", "export_error")
    ELSE IF rows = << >> THEN FailedExport("no_rows", "no_data")
    ELSE
        LET names == DescriptionNames(description)
            lines == [i \in 1..Len(rows) |-> PlainRow(description, rows[i], names)]
            w == WriteCsv(names, lines, fault, at)
        IN  [ stage |-> w.stage, success |-> w.success,
              fieldnames |-> IF fault = "open" THEN << >> ELSE names,
              file |-> w.file, msgs |-> w.msgs ]

\* main's lines 314-318 around the call of the export function
RunExport(result) ==
    /\ fieldnames' = result.fieldnames
    /\ file' = result.file
    /\ success' = result.success
    /\ export_stage' = result.stage
    /\ out' = out \cup { "export_start" } \cup result.msgs
    /\ pc' = "exported"
    /\ UNCHANGED << script, argv, db, conn, cursors, period_info, buckets,
                    exit_code >>

export_payroll_details ==
    /\ pc = "export"
    /\ script = PayrollDetails
    /\ \E fault \in ExportFaults : \E at \in FaultPoints(fault, db.description, db.rows) :
        RunExport(ExportPayrollDetailsResult(db.description, db.rows,
                                             argv.include_zero_fields, fault, at))

export_contribution_base ==
    /\ pc = "export"
    /\ script = ContributionBase
    /\ \E fault \in ExportFaults : \E at \in FaultPoints(fault, db.description, db.rows) :
        RunExport(ExportPlainResult(db.description, db.rows, fault, at))

export_employee_categories ==
    /\ pc = "export"
    /\ script = EmployeeCategories
    /\ \E fault \in ExportFaults : \E at \in FaultPoints(fault, db.description, db.rows) :
        RunExport(ExportPlainResult(db.description, db.rows, fault, at))

\* a variant whose failure branch lacks the sys.exit(1) of line 329
main_after_export_without_exit ==
    /\ pc = "exported"
    /\ IF success = "True"
       THEN LeaveTry(0, { "export_done" } \cup
                        (IF script = PayrollDetails /\ ~argv.include_zero_fields
                         THEN { "zero_fields_hint" } ELSE { }))
       ELSE LeaveTry(0, { "export_failed" })
    /\ UNCHANGED << script, argv, db, cursors, period_info, fieldnames, buckets,
                    file, success, export_stage >>

\* main, lines 320-332: report the result; `finally` closes the connection
main_after_export ==
    /\ pc = "exported"
    /\ IF success = "True"
       THEN LeaveTry(0, { "export_done" } \cup
                        (IF script = PayrollDetails /\ ~argv.include_zero_fields
                         THEN { "zero_fields_hint" } ELSE { }))
       ELSE LeaveTry(1, { "export_failed" })
    /\ UNCHANGED << script, argv, db, cursors, period_info, fieldnames, buckets,
                    file, success, export_stage >>

----------------------------------------------------------------------------
(* analyze_contribution_bases.py: analyze_employee_salary_configs, 37-215 *)

\* where the analysis can raise: nowhere, in psycopg2.connect, in one of the
\* queries, or while writing the JSON schema file
AnalyzeFaults == { "none", "connect", "query", "json" }

\* The whole function.  cursor.close() and conn.close() (lines 204-205) are the
\* last statements of the try block; `except Exception` (211-215) prints
\* "Error: ..." with the exception's text and the traceback and returns, so
\* the process ends with status 0.
analyze_employee_salary_configs ==
    /\ pc = "start"
    /\ script = AnalyzeBases
    /\ \E fault \in AnalyzeFaults :
        /\ conn' = IF fault = "connect" THEN "none"
                   ELSE IF fault = "none" THEN "closed"
                   ELSE "open"
        /\ cursors' = IF fault \in { "query", "json" } THEN cursors + 1 ELSE cursors
        /\ out' = out \cup (IF fault = "none" THEN { "analysis_complete" }
                            ELSE IF fault = "connect" THEN { "error_connect" }
                            ELSE IF fault = "query" THEN { "error_query" }
                            ELSE { "error_json" })
    /\ pc' = "done"
    /\ exit_code' = 0
    /\ UNCHANGED << script, argv, db, period_info, fieldnames, buckets, file,
                    success, export_stage >>

----------------------------------------------------------------------------
(* The inputs: command lines and database contents *)

MaxCols == 2     \* columns of a result set
MaxRows == 2     \* rows of a result set
MaxParts == 2    \* keyword parts of a generated column name
MaxFields == 2   \* columns of an analysed result set

\* 姓名 (text), 基本工资 (numeric), 住房公积金单位缴费 (numeric),
\* 计算时间 (timestamptz), 员工ID (int4), 入职日期 (date), each with the
\* values a cell of the column may hold: None, a name; None, 0.00, 12.50;
\* 0.00, 1E-400; None, a moment; None, 0; None, a day
ColumnCatalog ==
    << [ name |-> <<"u59d3", "u540d">>, type_code |-> 25,
         values |-> { NullValue, StrValue(1) } ],
       [ name |-> <<"u57fa", "u672c", "u5de5", "u8d44">>, type_code |-> 1700,
         values |-> { NullValue, DecimalValue(0, -2), DecimalValue(1250, -2) } ],
       [ name |-> <<"u4f4f", "u623f", "u516c", "u79ef", "u91d1", "u5355", "u4f4d", "u7f34", "u8d39">>,
         type_code |-> 1700,
         values |-> { DecimalValue(0, -2), DecimalValue(1, -400) } ],
       [ name |-> <<"u8ba1", "u7b97", "u65f6", "u95f4">>, type_code |-> 1184,
         values |-> { NullValue, DateTimeValue(20250630, 34200) } ],
       [ name |-> <<"u5458", "u5de5", "I", "D">>, type_code |-> 23,
         values |-> { NullValue, IntValue(0) } ],
       [ name |-> <<"u5165", "u804c", "u65e5", "u671f">>, type_code |-> 1082,
         values |-> { NullValue, DateValue(20240301) } ] >>

Column(entry) == [name |-> entry.name, type_code |-> entry.type_code]

\* the description of the n catalog columns from the i-th on
CatalogDescription(i, n) == [j \in 1..n |-> Column(ColumnCatalog[i + j - 1])]

\* the rows such a result set can hold: one value per column
CatalogValues == UNION { ColumnCatalog[j].values : j \in 1..Len(ColumnCatalog) }

CatalogRows(i, n) ==
    { r \in [1..n -> CatalogValues] :
        \A j \in 1..n : r[j] \in ColumnCatalog[i + j - 1].values }

\* (i, n): n adjacent catalog columns from the i-th on, n at most maxCols
CatalogSlices(maxCols) ==
    { s \in (1..Len(ColumnCatalog)) \X (1..maxCols) :
        s[1] + s[2] - 1 <= Len(ColumnCatalog) }

\* the result sets of k rows over the n catalog columns from the i-th on
ResultSets(i, n, k) ==
    { [description |-> CatalogDescription(i, n), rows |-> rs] :
        rs \in [1..k -> CatalogRows(i, n)] }

\* result sets of 姓名, 基本工资: no row; one employee; two employees, one
\* without a name (None); two employees, one without and one with the name ''
SampleDescription == CatalogDescription(1, 2)
SampleRow1 == << StrValue(1), DecimalValue(1250, -2) >>
SampleRow2 == << NullValue, DecimalValue(0, -2) >>
SampleRow3 == << StrValue(0), DecimalValue(1250, -2) >>

\* one of 计算时间, 创建时间 (both timestamptz): one record, both cells
\* holding 2025-06-30 09:30:00
SampleTimestampDescription ==
    << Column(ColumnCatalog[4]),
       [ name |-> <<"u521b", "u5efa", "u65f6", "u95f4">>, type_code |-> 1184 ] >>
SampleTimestampRow ==
    << DateTimeValue(20250630, 34200), DateTimeValue(20250630, 34200) >>

SampleResultSets ==
    { [description |-> SampleDescription, rows |-> << >>],
      [description |-> SampleDescription, rows |-> << SampleRow1 >>],
      [description |-> SampleDescription, rows |-> << SampleRow1, SampleRow2 >>],
      [description |-> SampleDescription, rows |-> << SampleRow2, SampleRow3 >>],
      [description |-> SampleTimestampDescription, rows |-> << SampleTimestampRow >>] }

\* period names: 2025年06月, 2025年6月, 2025年06月补发
Period202506 == <<"2", "0", "2", "5", "u5e74", "0", "6", "u6708">>
Period20256 == <<"2", "0", "2", "5", "u5e74", "6", "u6708">>
Period202506Extra == <<"2", "0", "2", "5", "u5e74", "0", "6", "u6708", "u8865", "u53d1">>
SamplePeriodTables ==
    { { }, { Period202506 }, { Period202506, Period20256, Period202506Extra } }

\* period arguments: none, 2025-06, 2025-6, 2025-13, 202506, and 2025-06
\* with the year in full-width digits
Arg202506 == <<"2", "0", "2", "5", "-", "0", "6">>
Arg20256 == <<"2", "0", "2", "5", "-", "6">>
ArgFullWidth202506 == <<"uff12", "uff10", "uff12", "uff15", "-", "0", "6">>
PeriodArgs ==
    { << >>, Arg202506, Arg20256, ArgFullWidth202506,
      <<"2", "0", "2", "5", "-", "1", "3">>,
      <<"2", "0", "2", "5", "0", "6">> }

\* argparse's args: --include-zero-fields and --analyze-fields exist in
\* export_payroll_details.py only (lines 269-270)
CommandLines(s) ==
    IF s = AnalyzeBases THEN
        { [period |-> << >>, stats_only |-> FALSE, include_zero_fields |-> FALSE,
           analyze_fields |-> FALSE] }
    ELSE
        [ period : PeriodArgs, stats_only : BOOLEAN,
          include_zero_fields : IF s = PayrollDetails THEN BOOLEAN ELSE { FALSE },
          analyze_fields : IF s = PayrollDetails THEN BOOLEAN ELSE { FALSE } ]

Database(periods, resultset) ==
    [periods |-> periods, description |-> resultset.description,
     rows |-> resultset.rows]

\* the state of a process before main() has run
Fresh ==
    /\ pc = "start"
    /\ conn = "none"
    /\ cursors = 0
    /\ period_info = NoPeriod
    /\ fieldnames = << >>
    /\ buckets = EmptyBuckets
    /\ file = NoFile
    /\ out = { }
    /\ exit_code = Running
    /\ success = "unset"
    /\ export_stage = "not_called"

Init ==
    /\ script \in Scripts
    /\ argv \in CommandLines(script)
    /\ db \in { Database(p, t) : p \in SamplePeriodTables, t \in SampleResultSets }
    /\ Fresh

Next ==
    \/ main_parse_args
    \/ get_db_connection
    \/ get_payroll_period_info
    \/ print_summary_stats
    \/ print_field_analysis
    \/ main_stats_only
    \/ export_payroll_details
    \/ export_contribution_base
    \/ export_employee_categories
    \/ main_after_export
    \/ analyze_employee_salary_configs

Spec == Init /\ [][Next]_vars

----------------------------------------------------------------------------
(* The export step on every bounded result set *)

\* a run of export_payroll_details.py that has printed its statistics and is
\* about to export
ReadyToExport ==
    /\ pc = "export"
    /\ conn = "open"
    /\ cursors = 0
    /\ period_info = [found |-> TRUE, name |-> Period202506]
    /\ fieldnames = << >>
    /\ buckets = EmptyBuckets
    /\ file = NoFile
    /\ out = { "connecting", "summary_stats" }
    /\ exit_code = Running
    /\ success = "unset"
    /\ export_stage = "not_called"

ExportInit ==
    /\ script = PayrollDetails
    /\ argv \in [ period : { Arg202506 }, stats_only : { FALSE },
                  include_zero_fields : BOOLEAN, analyze_fields : { FALSE } ]
    /\ \E s \in CatalogSlices(MaxCols), k \in 0..MaxRows :
          db \in { Database({ Period202506 }, rs) : rs \in ResultSets(s[1], s[2], k) }
    /\ ReadyToExport

ExportNext ==
    \/ export_payroll_details
    \/ main_after_export

ExportSpec == ExportInit /\ [][ExportNext]_vars

----------------------------------------------------------------------------
(* The classification pass on every bounded column name *)

\* the pieces generated names are made of: the earning keywords, the exclusion
\* keywords, 税, and two characters no rule mentions (金, 款)
NameParts ==
    EarningKeywords \o ExclusionKeywords
        \o << <<"u7a0e">>, <<"u91d1">>, <<"u6b3e">> >>

RECURSIVE Pow(_, _)
Pow(base, e) == IF e = 0 THEN 1 ELSE base * Pow(base, e - 1)

\* the i-th (from 0) concatenation of p parts
RECURSIVE PartsName(_, _)
PartsName(p, i) ==
    IF p = 0 THEN << >>
    ELSE PartsName(p - 1, i \div Len(NameParts)) \o NameParts[(i % Len(NameParts)) + 1]

\* the names of the three exact-match lists, then every name of 1..p parts
RECURSIVE NameCatalog(_)
NameCatalog(p) ==
    IF p = 0 THEN BasicFieldList \o EarningFieldList \o DeductionFieldList
    ELSE NameCatalog(p - 1)
            \o [i \in 1..Pow(Len(NameParts), p) |-> PartsName(p, i - 1)]

\* n columns named by the names i, i+1, ... of `names` (cyclically)
NamedDescription(names, i, n) ==
    [j \in 1..n |-> [name |-> names[((i + j - 2) % Len(names)) + 1],
                     type_code |-> NUMERIC_OID]]

\* every row-less result set of at most maxFields such columns
NamedResultSets(names, maxFields) ==
    { [description |-> NamedDescription(names, i, n), rows |-> << >>] :
        i \in 1..Len(names), n \in 1..maxFields }

\* a run of export_payroll_details.py --analyze-fields that has printed its
\* statistics and is about to analyse the fields
ClassifyInit ==
    /\ script = PayrollDetails
    /\ argv \in [ period : { Arg202506 }, stats_only : BOOLEAN,
                  include_zero_fields : { FALSE }, analyze_fields : { TRUE } ]
    /\ db \in { Database({ Period202506 }, rs) :
                rs \in NamedResultSets(NameCatalog(MaxParts), MaxFields) }
    /\ pc = "analyze"
    /\ conn = "open"
    /\ cursors = 0
    /\ period_info = [found |-> TRUE, name |-> Period202506]
    /\ fieldnames = << >>
    /\ buckets = EmptyBuckets
    /\ file = NoFile
    /\ out = { "connecting", "summary_stats" }
    /\ exit_code = Running
    /\ success = "unset"
    /\ export_stage = "not_called"

ClassifyNext == print_field_analysis

ClassifySpec == ClassifyInit /\ [][ClassifyNext]_vars

----------------------------------------------------------------------------
(* Properties *)

\* the export function got as far as computing its column list
ColumnListComputed == export_stage \in { "open_failed", "write_failed", "written" }

ColumnNumbers == 1..Len(db.description)
IsNumericColumn(i) == db.description[i].type_code = NUMERIC_OID

\* column i is None or exactly zero in every row
AllNullOrZero(i) ==
    \A r \in 1..Len(db.rows) :
        db.rows[r][i].k = "null" \/ IsExactZero(db.rows[r][i])

\* C1: with include_zero_fields false and at least one row, a numeric column
\* is dropped from the exported column list if and only if its value is null
\* or numerically equal to zero in every row.
C1_ZeroColumnDroppedIffAllZero ==
    (/\ script = PayrollDetails
     /\ ~argv.include_zero_fields
     /\ Len(db.rows) >= 1
     /\ ColumnListComputed)
        => \A i \in ColumnNumbers :
              IsNumericColumn(i) =>
                  (~InList(db.description[i].name, fieldnames) <=> AllNullOrZero(i))

\* the export query ran and returned no row
EmptyResultFetched ==
    /\ db.rows = << >>
    /\ export_stage \notin { "not_called", "query_raised" }

\* C2 as stated: for a result set of M = 0 rows, the pruning step with
\* include_zero_fields false decides to retain every numeric column: the
\* export reaches its column list and every numeric column is in it.
C2_EmptyResultRetainsNumericColumns ==
    (/\ script = PayrollDetails
     /\ ~argv.include_zero_fields
     /\ EmptyResultFetched)
        => /\ ColumnListComputed
           /\ \A i \in ColumnNumbers :
                 IsNumericColumn(i) => InList(db.description[i].name, fieldnames)

\* C2 as amended: for a result set of M = 0 rows the export returns False at
\* its empty-result check, before the pruning step: no column list is
\* computed, nothing is dropped and no file is created.
C2_EmptyResultReturnsBeforePruning ==
    (/\ script = PayrollDetails
     /\ ~argv.include_zero_fields
     /\ EmptyResultFetched)
        => /\ export_stage = "no_rows"
           /\ success = "False"
           /\ fieldnames = << >>
           /\ ~file.created
           /\ "filter_count" \notin out

C2_Witness ==
    /\ script = PayrollDetails
    /\ ~argv.include_zero_fields
    /\ EmptyResultFetched
    /\ \E i \in ColumnNumbers : IsNumericColumn(i)
    /\ export_stage = "no_rows"
    /\ pc = "exported"

\* the names of the columns print_field_analysis read
AnalysedNames == DescriptionNames(db.description)

\* how many of the four lists hold the name
BucketsHolding(name) ==
    (IF InList(name, buckets.basic_fields) THEN 1 ELSE 0)
    + (IF InList(name, buckets.earning_fields) THEN 1 ELSE 0)
    + (IF InList(name, buckets.deduction_fields) THEN 1 ELSE 0)
    + (IF InList(name, buckets.other_fields) THEN 1 ELSE 0)

\* C3: the classification pass puts every column name in exactly one of the
\* four lists, so the four counts sum to the number of columns.
C3_ClassificationTotal ==
    "field_analysis" \in out
        => /\ \A i \in 1..Len(AnalysedNames) : BucketsHolding(AnalysedNames[i]) = 1
           /\ Len(buckets.basic_fields) + Len(buckets.earning_fields)
                + Len(buckets.deduction_fields) + Len(buckets.other_fields)
              = Len(AnalysedNames)

InExactList(name) ==
    \/ InList(name, BasicFieldList)
    \/ InList(name, EarningFieldList)
    \/ InList(name, DeductionFieldList)

\* C4: a name in none of the exact-match lists is classified (a) earning if it
\* holds an earning keyword and no exclusion keyword, (b) otherwise deduction
\* if it holds a deduction/tax keyword, also when it holds an earning keyword
\* together with an exclusion keyword, (c) otherwise other.
C4_KeywordFallback ==
    "field_analysis" \in out
        => \A i \in 1..Len(AnalysedNames) :
              LET name == AnalysedNames[i]
              IN  ~InExactList(name) =>
                    IF AnyKeywordIn(name, EarningKeywords) /\ NoExclusionKeyword(name)
                    THEN InList(name, buckets.earning_fields)
                    ELSE IF AnyKeywordIn(name, DeductionKeywords)
                    THEN InList(name, buckets.deduction_fields)
                    ELSE InList(name, buckets.other_fields)

\* C5: once a connection has been opened, no script's process ends with the
\* connection or a cursor still open.
C5_ConnectionAndCursorsClosedAtExit ==
    pc = "done" => (conn # "open" /\ cursors = 0)

\* the text is in YYYY-MM form: four digits, '-', a two-digit month 01..12
IsYearMonthForm(s) ==
    /\ Len(s) = 7
    /\ \A i \in 1..4 : s[i] \in Digits
    /\ s[5] = "-"
    /\ MatchesMonth(SubSeq(s, 6, 7))

\* the period argument is valid and a period record was found for it
PeriodResolved ==
    /\ script \in Exporters
    /\ IsYearMonthForm(argv.period)
    /\ period_info.found

FailureReported == out \cap { "export_failed", "traceback" } # { }

\* C6 as stated: a run whose period resolves but has no payroll row reports
\* failure, exits non-zero and creates no file, whatever the flags.
C6_EmptyPeriodFailsForAllFlags ==
    (pc = "done" /\ PeriodResolved /\ db.rows = << >>)
        => (FailureReported /\ exit_code # 0 /\ ~file.created)

\* C6 as amended: such a run creates no file; without --stats-only it reports
\* failure and exits non-zero; with --stats-only the export step is never
\* executed, and the run ends either with status 0, having printed its
\* statistics and the stats-only notice, or with status 1 and a traceback
\* (a step before the notice raised).
C6_EmptyPeriodFailsUnlessStatsOnly ==
    (pc = "done" /\ PeriodResolved /\ db.rows = << >>)
        => /\ ~file.created
           /\ ~argv.stats_only => (FailureReported /\ exit_code # 0)
           /\ argv.stats_only =>
                /\ export_stage = "not_called"
                /\ IF "traceback" \in out
                   THEN exit_code = 1 /\ "stats_only" \notin out
                   ELSE /\ exit_code = 0
                        /\ "summary_stats" \in out
                        /\ "stats_only" \in out

C6_Witness ==
    /\ pc = "done"
    /\ PeriodResolved
    /\ db.rows = << >>
    /\ ~argv.stats_only
    /\ export_stage = "no_rows"
    /\ exit_code = 1
    /\ "export_failed" \in out

\* C7: when the process ends, the output file is either untouched or holds
\* the header and all M rows; a failed run leaves no partly written file.
C7_NoPartialFile ==
    pc = "done"
        => \/ ~file.created
           \/ /\ file.header_written
              /\ Len(file.rows) = Len(db.rows)
              /\ file.tail = NoTail
              /\ exit_code = 0

\* a database error was raised: the connection failed, or a query raised
DatabaseErrorRaised ==
    \/ out \cap { "db_connect_error", "traceback", "error_connect", "error_query" } # { }
    \/ export_stage = "query_raised"

\* C8: in every script, a run in which a database error was raised prints a
\* message, exits non-zero and leaves no connection open.
C8_DatabaseErrorsExitNonZero ==
    (pc = "done" /\ DatabaseErrorRaised)
        => (exit_code # 0 /\ conn # "open")

\* the lookup ran and no period record matched
NoPeriodMatched == "period_not_found" \in out

\* C9: a run whose period argument is missing, is not in YYYY-MM form, or
\* matches no period record is reported, exits non-zero, and creates or
\* writes no output file.
C9_ArgumentAndLookupErrorsFail ==
    (/\ pc = "done"
     /\ script \in Exporters
     /\ (argv.period = << >> \/ ~IsYearMonthForm(argv.period) \/ NoPeriodMatched))
        => (exit_code # 0 /\ ~file.created)

\* C10: with include_zero_fields true the exported column list is the
\* query's column list, same names in the same order, whatever the cells hold.
C10_IncludeZeroKeepsAllColumns ==
    (script = PayrollDetails /\ argv.include_zero_fields /\ ColumnListComputed)
        => /\ fieldnames = DescriptionNames(db.description)
           /\ file.header_written => file.header = DescriptionNames(db.description)

C10_Witness ==
    /\ script = PayrollDetails
    /\ argv.include_zero_fields
    /\ export_stage = "written"
    /\ Len(db.rows) >= 1
    /\ \E i \in ColumnNumbers :
          /\ IsNumericColumn(i)
          /\ AllNullOrZero(i)
          /\ InList(db.description[i].name, file.header)

\* column i holds nothing but None, 0 or '' in every row
AllNullOrBlank(i) ==
    \A r \in 1..Len(db.rows) :
        \/ db.rows[r][i].k = "null"
        \/ db.rows[r][i].k \in { "int", "str", "decimal" } /\ db.rows[r][i].a = 0

\* C11: with include_zero_fields false, every column whose declared type is
\* not numeric stays in the exported column list (and in the written header),
\* even when its value is null or zero in every row.
C11_NonNumericColumnsRetained ==
    (/\ script = PayrollDetails
     /\ ~argv.include_zero_fields
     /\ ColumnListComputed)
        => \A i \in ColumnNumbers :
              ~IsNumericColumn(i) =>
                  /\ InList(db.description[i].name, fieldnames)
                  /\ file.header_written => InList(db.description[i].name, file.header)

C11_Witness ==
    /\ script = PayrollDetails
    /\ ~argv.include_zero_fields
    /\ export_stage = "written"
    /\ \E i \in ColumnNumbers :
          /\ ~IsNumericColumn(i)
          /\ AllNullOrBlank(i)
          /\ InList(db.description[i].name, file.header)
    /\ \E i \in ColumnNumbers :
          /\ IsNumericColumn(i)
          /\ ~InList(db.description[i].name, file.header)

\* C12: the exported column list is a subsequence of the query's column list:
\* every kept name is a column of the result set, and two kept names stand in
\* the order their columns have in the result set.
C12_RetainedOrderPreserved ==
    (script = PayrollDetails /\ ColumnListComputed)
        => /\ \A a \in 1..Len(fieldnames) :
                \E i \in ColumnNumbers : db.description[i].name = fieldnames[a]
           /\ \A a \in 1..Len(fieldnames), b \in 1..Len(fieldnames) :
                a < b =>
                    \E i \in ColumnNumbers, j \in ColumnNumbers :
                        /\ i < j
                        /\ db.description[i].name = fieldnames[a]
                        /\ db.description[j].name = fieldnames[b]
           /\ file.header_written => file.header = fieldnames

C12_Witness ==
    /\ script = PayrollDetails
    /\ ~argv.include_zero_fields
    /\ export_stage = "written"
    /\ Len(file.header) >= 2
    /\ \E i \in ColumnNumbers :
          /\ IsNumericColumn(i)
          /\ InList(db.description[i].name, file.header)

\* the cell of the fetched record r that the written column j was taken from
SourceValue(r, j) == RowValue(db.description, db.rows[r], file.header[j])

\* C13: every datetime cell value an exporter writes is written with its
\* time of day (date, then %H:%M:%S), in every exporter script and for every
\* column, the timestamp-classified names such as 计算时间 included.
C13_TimestampsKeepTimeOfDay ==
    (script \in Exporters /\ file.header_written)
        => \A r \in 1..Len(file.rows), j \in 1..Len(file.header) :
              SourceValue(r, j).k = "datetime" =>
                  file.rows[r][j] = [ t |-> "%Y-%m-%d %H:%M:%S",
                                      a |-> SourceValue(r, j).a,
                                      b |-> SourceValue(r, j).b ]

StatsOnlyRun == script \in Exporters /\ argv.stats_only

\* the run of --stats-only has ended after a period was found
StatsOnlyEnded ==
    /\ StatsOnlyRun
    /\ pc = "done"
    /\ validate_period_format(argv.period)
    /\ period_info.found

\* C14: with --stats-only no output file is created or written and the
\* export step never runs; and once the period is valid and found, the run
\* prints the statistics and ends with status 0 and the connection closed.
C14_StatsOnlyAlwaysSucceeds ==
    /\ StatsOnlyRun => (file = NoFile /\ export_stage = "not_called")
    /\ StatsOnlyEnded =>
          /\ "summary_stats" \in out
          /\ exit_code = 0
          /\ conn = "closed"

BucketNames == { "basic_fields", "earning_fields", "deduction_fields", "other_fields" }

\* the name is in the list `bucket` and in no other of the four lists
HeldOnlyBy(name, bucket) ==
    \A k \in BucketNames : InList(name, buckets[k]) <=> (k = bucket)

\* C15: a name of the identity-field list is classified identity (basic);
\* otherwise a name of the earning-field list is classified earning; otherwise
\* a name of the deduction-field list is classified deduction; whatever
\* keyword the name holds.
C15_ExactMatchPriority ==
    "field_analysis" \in out
        => \A i \in 1..Len(AnalysedNames) :
              LET name == AnalysedNames[i]
              IN  IF InList(name, BasicFieldList) THEN HeldOnlyBy(name, "basic_fields")
                  ELSE IF InList(name, EarningFieldList) THEN HeldOnlyBy(name, "earning_fields")
                  ELSE IF InList(name, DeductionFieldList) THEN HeldOnlyBy(name, "deduction_fields")
                  ELSE TRUE

\* 各种津补贴 (earning list, holds the keyword 补贴) analysed next to 扣除合计
\* (deduction list, holds the keyword 扣), or a pair like them
C15_Witness ==
    /\ "field_analysis" \in out
    /\ \E i \in 1..Len(AnalysedNames) :
          /\ InList(AnalysedNames[i], EarningFieldList)
          /\ AnyKeywordIn(AnalysedNames[i], EarningKeywords)
          /\ HeldOnlyBy(AnalysedNames[i], "earning_fields")
    /\ \E i \in 1..Len(AnalysedNames) :
          /\ InList(AnalysedNames[i], DeductionFieldList)
          /\ AnyKeywordIn(AnalysedNames[i], DeductionKeywords)
          /\ HeldOnlyBy(AnalysedNames[i], "deduction_fields")

\* the lists a run holds after analysing a result set of the one column `name`
ClassifiedAlone(name) == ClassifyFields(<< name >>, 1)

\* C18: the classification of a column is a function of its name alone: in
\* whatever position and next to whatever other columns a name is analysed,
\* it is put in the lists that a run analysing that name alone puts it in.
C18_ClassificationDeterministic ==
    "field_analysis" \in out
        => \A i \in 1..Len(AnalysedNames), k \in BucketNames :
              InList(AnalysedNames[i], buckets[k])
                  <=> InList(AnalysedNames[i], ClassifiedAlone(AnalysedNames[i])[k])

\* two columns analysed in one run, the second one not filed as other
C18_Witness ==
    /\ "field_analysis" \in out
    /\ Len(AnalysedNames) >= 2
    /\ AnalysedNames[1] # AnalysedNames[2]
    /\ ~InList(AnalysedNames[2], buckets.other_fields)
    /\ BucketsHolding(AnalysedNames[1]) = 1
    /\ BucketsHolding(AnalysedNames[2]) = 1
    /\ ~HeldOnlyBy(AnalysedNames[1], "other_fields")

ExportSucceeded == export_stage = "written" /\ success = "True"

\* the written cell is the value as csv writes it, nothing changed but the
\* form of a None (empty) and of a datetime (its date, with or without time)
CellCarries(cell, v) ==
    IF v.k = "null" THEN cell = EmptyField
    ELSE IF v.k = "str" /\ v.a = 0 THEN cell = EmptyField
    ELSE IF v.k = "datetime" THEN
        /\ cell.t \in { "%Y-%m-%d", "%Y-%m-%d %H:%M:%S",
                      "%-Y-%m-%d", "%-Y-%m-%d %H:%M:%S" }
        /\ cell.a = v.a
    ELSE IF v.k = "date" THEN cell = [t |-> "%Y-%m-%d", a |-> v.a, b |-> 0]
    ELSE cell = [t |-> v.k, a |-> v.a, b |-> v.b]

\* C16: a successful export has written a header of exactly the retained
\* column names and exactly one row per fetched record, in query order; each
\* written row has one cell per retained column and none for a dropped column,
\* and each cell carries the value of its record and column.
C16_HeaderAndOneRowPerRecord ==
    (script = PayrollDetails /\ ExportSucceeded)
        => /\ file.header_written
           /\ file.header = fieldnames
           /\ file.tail = NoTail
           /\ Len(file.rows) = Len(db.rows)
           /\ \A r \in 1..Len(file.rows) :
                /\ Len(file.rows[r]) = Len(fieldnames)
                /\ \A j \in 1..Len(fieldnames) :
                      \E i \in ColumnNumbers :
                          /\ db.description[i].name = fieldnames[j]
                          /\ CellCarries(file.rows[r][j], db.rows[r][i])

C16_Witness ==
    /\ script = PayrollDetails
    /\ ExportSucceeded
    /\ ~argv.include_zero_fields
    /\ Len(file.rows) >= 2
    /\ file.rows[1] # file.rows[2]
    /\ Len(file.header) >= 1
    /\ Len(file.header) < Len(db.description)

\* C17: in every exporter a None cell and a cell holding the empty string ''
\* are both written as the empty field, so the written file does not tell
\* them apart.
C17_NullWrittenAsEmptyString ==
    (script \in Exporters /\ file.header_written)
        => \A r \in 1..Len(file.rows), j \in 1..Len(file.header) :
              (SourceValue(r, j) = NullValue \/ SourceValue(r, j) = StrValue(0))
                  => file.rows[r][j] = EmptyField

\* export_contribution_base has written a None and a '' of the same column
C17_Witness ==
    /\ script = ContributionBase
    /\ export_stage = "written"
    /\ \E j \in 1..Len(file.header) :
          \E r1 \in 1..Len(file.rows), r2 \in 1..Len(file.rows) :
              /\ SourceValue(r1, j) = NullValue
              /\ SourceValue(r2, j) = StrValue(0)
              /\ file.rows[r1][j] = file.rows[r2][j]

\* the month strptime parsed from an accepted period string, as two digits
ParsedMonthTwoDigits(period_str) ==
    LET m == SubSeq(period_str, 6, Len(period_str))
    IN  IF Len(m) = 1 THEN << "0" >> \o m ELSE m

\* the year strptime parsed, as four ASCII digits
ParsedYearFourDigits(period_str) ==
    [i \in 1..4 |-> DecimalDigitRuns[1][DigitValue(period_str[i]) + 1]]

\* year, 年, two-digit month, 月 of the date the validation parsed
ZeroPaddedPeriodName(period_str) ==
    ParsedYearFourDigits(period_str) \o << YearChar >>
        \o ParsedMonthTwoDigits(period_str) \o << MonthChar >>

\* get_payroll_period_info has run on an argument the validation accepted
PeriodLookedUp ==
    /\ script \in Exporters
    /\ validate_period_format(argv.period)
    /\ pc \notin { "start", "connect", "period" }
    /\ conn # "none"

\* C19: for every period string that validate_period_format accepts, the name
\* get_payroll_period_info looks up is the four-digit year, 年, the two-digit
\* zero-padded month, 月 of the parsed date; and a period it finds holds that
\* name.
C19_PeriodNameWellFormed ==
    PeriodLookedUp
        => /\ PeriodName(argv.period) = ZeroPaddedPeriodName(argv.period)
           /\ period_info.found =>
                Contains(period_info.name, ZeroPaddedPeriodName(argv.period))

====
